---- MODULE Spec2Model ----
(***************************************************************************)
(* A model of the xor command line tool (src/src/main.rs): key resolution, *)
(* single-stream mode and the recursive in-place tree walk, over a small   *)
(* file system.                                                            *)
(***************************************************************************)
EXTENDS Integers, Sequences, FiniteSets, TLC

VARIABLES
    args,       \* the parsed command line (matches)
    kind,       \* file system: what exists at each path
    perm,       \* file system: access the process has to each entry
    link,       \* file system: target of each symlink
    fs,         \* file system: byte contents of each regular file
    stdin,      \* bytes waiting on standard input
    stdout,     \* bytes written to standard output by the stream sink
    pc,         \* position of the process in main
    err,        \* "" or the place where the process panicked
    run,        \* number of the current invocation
    key_bytes,  \* main's key_bytes
    stack,      \* the walker's call stack: one frame per open read_dir iterator
    cur,        \* the xor_file call in progress
    handles,    \* open File handles: <<path, mode>>
    write_res,  \* the Result of write_all that encrypt_reader discards
    printed,    \* println! lines of the walker: <<what, path>>
    stderr,     \* directories reported as "Failed to read directory"
    visits,     \* history: number of xor_entry calls per path in this run
    hist,       \* history: the file system at the start of each run
    keys        \* history: the key resolved by each run

vars == <<args, kind, perm, link, fs, stdin, stdout, pc, err, run, key_bytes,
          stack, cur, handles, write_res, printed, stderr, visits, hist, keys>>

----------------------------------------------------------------------------
(* Bounds *)

MaxLen == 3

MaxRuns == 2

----------------------------------------------------------------------------
(* Bytes and the XOR engine *)

RECURSIVE BXor(_, _)
BXor(a, b) ==
    IF a = 0 THEN b
    ELSE IF b = 0 THEN a
    ELSE (((a % 2) + (b % 2)) % 2) + (2 * BXor(a \div 2, b \div 2))

RECURSIVE XorFrom(_, _, _)
XorFrom(input, key, key_idx) ==
    IF input = <<>> THEN <<>>
    ELSE <<BXor(Head(input), key[key_idx + 1])>>
         \o XorFrom(Tail(input), key, (key_idx + 1) % Len(key))

\* The engine fails on an empty key.
XorFails(key) == Len(key) = 0

Xor(input, key) == XorFrom(input, key, 0)

\* String::into_bytes: the UTF-8 encoding of a string of code points.
Utf8Char(c) ==
    IF c < 128 THEN <<c>>
    ELSE IF c < 2048 THEN <<192 + (c \div 64), 128 + (c % 64)>>
    ELSE IF c < 65536
         THEN <<224 + (c \div 4096), 128 + ((c \div 64) % 64), 128 + (c % 64)>>
    ELSE <<240 + (c \div 262144), 128 + ((c \div 4096) % 64),
           128 + ((c \div 64) % 64), 128 + (c % 64)>>

RECURSIVE IntoBytes(_)
IntoBytes(s) ==
    IF s = <<>> THEN <<>> ELSE Utf8Char(Head(s)) \o IntoBytes(Tail(s))

----------------------------------------------------------------------------
(* The file system *)

NONE == "-"

Paths == {"d", "f", "sub", "g", "up", "p", "k", "ln", "x", "n"}

\* d/{f, sub/{g, up -> d, p}, k, ln}; x and n lie outside d.
Children(p) ==
    CASE p = "d" -> {"f", "sub", "k", "ln"}
      [] p = "sub" -> {"g", "up", "p"}
      [] OTHER -> {}

\* Path resolution as open(2), read_dir and Path::exists do it: a symlink
\* stands for its target.
Resolve(p) == IF kind[p] = "symlink" THEN link[p] ELSE p

\* Path::exists
Exists(p) == kind[Resolve(p)] # "none"

CanRead(p) == kind[Resolve(p)] # "none" /\ perm[Resolve(p)] \in {"rw", "ro"}

CanWrite(p) == kind[Resolve(p)] = "file" /\ perm[Resolve(p)] = "rw"

\* A variant of Truncate: the file is opened without truncate(true).
TruncateKeep(data) == data

\* OpenOptions::truncate(true)
Truncate(data) == <<>>

\* write_all through a fresh handle: the bytes land at offset 0.
WriteAt0(old, bytes) ==
    bytes \o SubSeq(old, Len(bytes) + 1, Len(old))

----------------------------------------------------------------------------
(* Initial states: a command line and a file system *)

DataBytes == {0, 16}

KeyBytes == {97, 255}

Seqs(S, n) == UNION {[1..m -> S] : m \in 0..n}

Pattern(a, b, n) == [i \in 1..n |-> IF i % 2 = 1 THEN a ELSE b]

\* The path a key argument names; a string that names nothing known is NONE.
PathOf(text) ==
    CASE text = <<120>> -> "x"
      [] text = <<107>> -> "k"
      [] text = <<100>> -> "d"
      [] text = <<108, 110>> -> "ln"
      [] text = <<110>> -> "n"
      [] OTHER -> NONE

\* "", "ab", "e-acute", and the names of x, k, d, ln, n.
KeyArgs == {<<>>, <<97, 98>>, <<233>>, <<120>>, <<107>>, <<100>>, <<108, 110>>, <<110>>}

Kind0 ==
    [p \in Paths |->
        CASE p \in {"d", "sub"} -> "dir"
          [] p \in {"f", "g", "k", "x"} -> "file"
          [] p \in {"up", "ln"} -> "symlink"
          [] p = "p" -> "other"
          [] OTHER -> "none"]

Fs0(data, kdata) ==
    [p \in Paths |->
        CASE p = "f" -> data
          [] p = "g" -> <<16, 32>>
          [] p \in {"k", "x"} -> kdata
          [] OTHER -> <<>>]

NoCur == [path |-> NONE, buf |-> <<>>, phase |-> "idle"]

InitCommon(a, pm, lnk, data, kdata, sin) ==
    /\ args = a
    /\ kind = Kind0
    /\ perm = pm
    /\ link = lnk
    /\ fs = Fs0(data, kdata)
    /\ stdin = sin
    /\ stdout = <<>>
    /\ pc = "main"
    /\ err = ""
    /\ run = 1
    /\ key_bytes = <<>>
    /\ stack = <<>>
    /\ cur = NoCur
    /\ handles = {}
    /\ write_res = "none"
    /\ printed = {}
    /\ stderr = {}
    /\ visits = [p \in Paths |-> 0]
    /\ hist = <<[fs |-> Fs0(data, kdata), kind |-> Kind0]>>
    /\ keys = <<>>

AllRw == [p \in Paths |-> "rw"]

StreamPairs ==
    {<<NONE, NONE>>, <<"f", NONE>>, <<NONE, "g">>, <<"f", "g">>, <<"f", "f">>,
     <<"f", "n">>, <<"n", "g">>, <<"f", "d">>}

\* xor --key K [--input I] [--output O]
InitStream ==
    \E k \in KeyArgs, io \in StreamPairs, t \in {"n", "x"},
       data \in Seqs(DataBytes, MaxLen), kdata \in Seqs(KeyBytes, MaxLen) :
        /\ PathOf(k) \notin {"x", "k", "ln"} => kdata = <<>>
        /\ PathOf(k) \in {"k", "ln"} => kdata = Pattern(255, 97, MaxLen)
        /\ PathOf(k) # "ln" => t = "n"
        /\ InitCommon([key |-> k, recursive |-> NONE, input |-> io[1], output |-> io[2]],
                      AllRw, [p \in {"up", "ln"} |-> IF p = "up" THEN "d" ELSE t],
                      data, kdata, IF io[1] = NONE THEN data ELSE <<>>)

\* xor --key K --recursive DIR
InitWalk ==
    \E k \in {<<>>, <<97, 98>>, <<120>>, <<107>>, <<100>>}, start \in {"d", "sub"},
       pf \in {"rw", "ro", "none"}, ps \in {"rw", "none"}, px \in {"rw", "none"},
       n \in {0, MaxLen}, m \in 0..MaxLen :
        /\ PathOf(k) # "x" => px = "rw"
        /\ InitCommon([key |-> k, recursive |-> start, input |-> NONE, output |-> NONE],
                   [AllRw EXCEPT !["f"] = pf, !["sub"] = ps, !["x"] = px],
                   [p \in {"up", "ln"} |-> IF p = "up" THEN "d" ELSE "n"],
                   Pattern(16, 32, n), Pattern(255, 97, m), <<>>)

Init == InitStream \/ InitWalk

----------------------------------------------------------------------------
(* The process *)

\* A panic (a failed unwrap) ends the process: every handle is dropped.
Panic(site) ==
    /\ pc' = "panic"
    /\ err' = site
    /\ handles' = {}
    /\ stack' = <<>>
    /\ cur' = NoCur

\* A variant of KeyIsFile: the test does not follow symlinks
\* (as Path::symlink_metadata(key).is_ok() would).
KeyIsFileLstat(key) == PathOf(key) \in Paths /\ kind[PathOf(key)] # "none"

\* Path::new(key).exists()
KeyIsFile(key) == PathOf(key) \in Paths /\ Exists(PathOf(key))

\* get_key_bytes, called first thing by main
GetKeyBytes ==
    /\ pc = "main"
    /\ LET key == args.key
           p == PathOf(key)
       IN  IF KeyIsFile(key)
           THEN IF ~CanRead(p)
                THEN Panic("key_open") /\ UNCHANGED <<key_bytes, keys>>
                ELSE IF kind[Resolve(p)] # "file"
                THEN Panic("key_read") /\ UNCHANGED <<key_bytes, keys>>
                ELSE /\ key_bytes' = fs[Resolve(p)]
                     /\ keys' = Append(keys, fs[Resolve(p)])
                     /\ pc' = "keyed"
                     /\ UNCHANGED <<err, handles, stack, cur>>
           ELSE /\ key_bytes' = IntoBytes(key)
                /\ keys' = Append(keys, IntoBytes(key))
                /\ pc' = "keyed"
                /\ UNCHANGED <<err, handles, stack, cur>>
    /\ UNCHANGED <<args, kind, perm, link, fs, stdin, stdout, run, write_res,
                   printed, stderr, visits, hist>>

\* fs::read_dir(p): the entries of the directory p resolves to, or an error
CanList(p) == kind[Resolve(p)] = "dir" /\ perm[Resolve(p)] # "none"

Frame(p) == [dir |-> Resolve(p), todo |-> Children(Resolve(p))]

\* main's recursive branch and the read_dir(p).unwrap() of encrypt_path
EncryptPath ==
    /\ pc = "keyed"
    /\ args.recursive # NONE
    /\ IF CanList(args.recursive)
       THEN /\ stack' = <<Frame(args.recursive)>>
            /\ pc' = "walk"
            /\ UNCHANGED <<err, handles, cur>>
       ELSE Panic("read_dir")
    /\ UNCHANGED <<args, kind, perm, link, fs, stdin, stdout, run, key_bytes,
                   write_res, printed, stderr, visits, hist, keys>>

Top == stack[Len(stack)]

\* The loop of encrypt_path or xor_dir hands its next entry to xor_entry.
CanVisit(e) ==
    /\ pc = "walk"
    /\ cur.phase = "idle"
    /\ stack # <<>>
    /\ e \in Top.todo

\* A variant of Taken: the directory iterator does not advance.
TakenNot(e) == stack

\* The iterating frame once it has yielded e.
Taken(e) == [stack EXCEPT ![Len(stack)].todo = @ \ {e}]

\* A variant of EntryType: the type of what the entry leads to
\* (as fs::metadata(entry.path()) would give it).
EntryTypeFollow(e) == kind[Resolve(e)]

\* DirEntry::file_type: the type of the entry itself, symlinks not followed
EntryType(e) == kind[e]

\* A variant of XorDir: the listing is unwrapped as encrypt_path unwraps it.
XorDirUnwrap(e) ==
    /\ CanVisit(e)
    /\ EntryType(e) = "dir"
    /\ visits' = [visits EXCEPT ![e] = @ + 1]
    /\ printed' = printed \cup {<<"dir", e>>}
    /\ IF CanList(e)
       THEN /\ stack' = Append(Taken(e), Frame(e))
            /\ UNCHANGED <<pc, err, cur, handles>>
       ELSE Panic("read_dir")
    /\ UNCHANGED <<args, kind, perm, link, fs, stdin, stdout, run, key_bytes,
                   write_res, stderr, hist, keys>>

\* xor_entry on a directory: xor_dir
XorDir(e) ==
    /\ CanVisit(e)
    /\ EntryType(e) = "dir"
    /\ visits' = [visits EXCEPT ![e] = @ + 1]
    /\ printed' = printed \cup {<<"dir", e>>}
    /\ IF CanList(e)
       THEN /\ stack' = Append(Taken(e), Frame(e))
            /\ UNCHANGED stderr
       ELSE /\ stack' = Taken(e)
            /\ stderr' = stderr \cup {e}
    /\ UNCHANGED <<args, kind, perm, link, fs, stdin, stdout, pc, err, run,
                   key_bytes, cur, handles, write_res, hist, keys>>

\* A variant of CypherText: the writer is opened (and the file truncated)
\* before the reader is consumed.
CypherTextAfterTruncate(data, key) == Xor(Truncate(data), key)

\* A variant of CypherText: the bytes read are kept as they are.
CypherTextRaw(data, key) == data

\* xor_file's cypher_text: the whole file through the engine
CypherText(data, key) == Xor(data, key)

\* xor_entry on a regular file: xor_file up to the end of reader.xor(&key)
XorFile(e) ==
    /\ CanVisit(e)
    /\ EntryType(e) = "file"
    /\ visits' = [visits EXCEPT ![e] = @ + 1]
    /\ printed' = printed \cup {<<"file", e>>}
    /\ IF ~(CanRead(e) /\ kind[Resolve(e)] = "file")
       THEN /\ stack' = Taken(e)
            /\ UNCHANGED <<pc, err, handles, cur>>
       ELSE IF XorFails(key_bytes)
       THEN Panic("xor")
       ELSE /\ stack' = Taken(e)
            /\ handles' = handles \cup {<<Resolve(e), "r">>}
            /\ cur' = [path |-> Resolve(e), phase |-> "read",
                       buf |-> CypherText(fs[Resolve(e)], key_bytes)]
            /\ UNCHANGED <<pc, err>>
    /\ UNCHANGED <<args, kind, perm, link, fs, stdin, stdout, run, key_bytes,
                   write_res, stderr, hist, keys>>

\* xor_file: OpenOptions write+truncate on the same path, unwrapped
XorFileTruncate ==
    /\ pc = "walk"
    /\ cur.phase = "read"
    /\ IF CanWrite(cur.path)
       THEN /\ handles' = handles \cup {<<cur.path, "w">>}
            /\ fs' = [fs EXCEPT ![cur.path] = Truncate(@)]
            /\ cur' = [cur EXCEPT !.phase = "write"]
            /\ UNCHANGED <<pc, err, stack>>
       ELSE Panic("open_write") /\ UNCHANGED fs
    /\ UNCHANGED <<args, kind, perm, link, stdin, stdout, run, key_bytes,
                   write_res, printed, stderr, visits, hist, keys>>

\* A variant of CloseFile: the reader outlives the call.
CloseFileLeak(h, p) == {x \in h : x[1] # p \/ x[2] = "r"}

\* The end of xor_file's if-let scope drops the reader and the writer.
CloseFile(h, p) == {x \in h : x[1] # p}

\* xor_file: writer.write_all(..).unwrap(), then the end of the scope.
\* A failing write_all has written some strict prefix.
XorFileWrite ==
    /\ pc = "walk"
    /\ cur.phase = "write"
    /\ \E n \in 0..Len(cur.buf) :
        /\ fs' = [fs EXCEPT ![cur.path] = WriteAt0(@, SubSeq(cur.buf, 1, n))]
        /\ IF n = Len(cur.buf)
           THEN /\ handles' = CloseFile(handles, cur.path)
                /\ cur' = NoCur
                /\ UNCHANGED <<pc, err, stack>>
           ELSE Panic("write")
    /\ UNCHANGED <<args, kind, perm, link, stdin, stdout, run, key_bytes,
                   write_res, printed, stderr, visits, hist, keys>>

\* A variant of XorSymlink: a link to a directory is walked like xor_dir.
XorSymlinkFollow(e) ==
    /\ CanVisit(e)
    /\ EntryType(e) = "symlink"
    /\ visits' = [visits EXCEPT ![e] = @ + 1]
    /\ printed' = printed \cup {<<"symlink", e>>}
    /\ stack' = IF CanList(e) THEN Append(Taken(e), Frame(e)) ELSE Taken(e)
    /\ UNCHANGED <<args, kind, perm, link, fs, stdin, stdout, pc, err, run,
                   key_bytes, cur, handles, write_res, stderr, hist, keys>>

\* xor_entry on a symlink: xor_symlink prints a line
XorSymlink(e) ==
    /\ CanVisit(e)
    /\ EntryType(e) = "symlink"
    /\ visits' = [visits EXCEPT ![e] = @ + 1]
    /\ printed' = printed \cup {<<"symlink", e>>}
    /\ stack' = Taken(e)
    /\ UNCHANGED <<args, kind, perm, link, fs, stdin, stdout, pc, err, run,
                   key_bytes, cur, handles, write_res, stderr, hist, keys>>

\* xor_entry on anything else (or when file_type() fails): no branch is taken
XorOther(e) ==
    /\ CanVisit(e)
    /\ EntryType(e) \notin {"dir", "file", "symlink"}
    /\ visits' = [visits EXCEPT ![e] = @ + 1]
    /\ stack' = Taken(e)
    /\ UNCHANGED <<args, kind, perm, link, fs, stdin, stdout, pc, err, run,
                   key_bytes, cur, handles, write_res, printed, stderr, hist, keys>>

\* The for loop of xor_dir or encrypt_path runs out of entries and returns.
Return ==
    /\ pc = "walk"
    /\ cur.phase = "idle"
    /\ stack # <<>>
    /\ Top.todo = {}
    /\ stack' = SubSeq(stack, 1, Len(stack) - 1)
    /\ pc' = IF Len(stack) = 1 THEN "done" ELSE "walk"
    /\ UNCHANGED <<args, kind, perm, link, fs, stdin, stdout, err, run, key_bytes,
                   cur, handles, write_res, printed, stderr, visits, hist, keys>>

\* main: the input source, File::open(..).unwrap() or stdin
OpenInput ==
    /\ pc = "keyed"
    /\ args.recursive = NONE
    /\ IF args.input = NONE
       THEN /\ pc' = "input_open"
            /\ UNCHANGED <<err, handles, stack, cur>>
       ELSE IF CanRead(args.input)
       THEN /\ pc' = "input_open"
            /\ handles' = handles \cup {<<Resolve(args.input), "r">>}
            /\ UNCHANGED <<err, stack, cur>>
       ELSE Panic("input")
    /\ UNCHANGED <<args, kind, perm, link, fs, stdin, stdout, run, key_bytes,
                   write_res, printed, stderr, visits, hist, keys>>

\* main: the output sink, write+create+truncate unwrapped, or stdout
OpenOutput ==
    /\ pc = "input_open"
    /\ LET p == IF args.output = NONE THEN NONE ELSE Resolve(args.output)
       IN  IF args.output = NONE
           THEN /\ pc' = "output_open"
                /\ UNCHANGED <<kind, fs, err, handles, stack, cur>>
           ELSE IF kind[p] = "none" \/ CanWrite(p)
           THEN /\ pc' = "output_open"
                /\ kind' = [kind EXCEPT ![p] = "file"]
                /\ fs' = [fs EXCEPT ![p] = Truncate(@)]
                /\ handles' = handles \cup {<<p, "w">>}
                /\ UNCHANGED <<err, stack, cur>>
           ELSE Panic("output") /\ UNCHANGED <<kind, fs>>
    /\ UNCHANGED <<args, perm, link, stdin, stdout, run, key_bytes, write_res,
                   printed, stderr, visits, hist, keys>>

\* A variant of EncodedBytes: the input is written out as it was read.
EncodedBytesRaw(input, key) == input

\* What encrypt_reader hands to write_all
EncodedBytes(input, key) == Xor(input, key)

\* encrypt_reader: xor the whole input, write_all (its Result is dropped),
\* flush; the boxed reader and writer are dropped on return.
EncryptReader ==
    /\ pc = "output_open"
    /\ LET input == IF args.input = NONE THEN stdin ELSE fs[Resolve(args.input)]
       IN  IF XorFails(key_bytes)
           THEN Panic("xor") /\ UNCHANGED <<fs, stdout, write_res>>
           ELSE \E n \in 0..Len(input) :
                LET bytes == SubSeq(EncodedBytes(input, key_bytes), 1, n)
                IN  /\ write_res' = IF n = Len(input) THEN "ok" ELSE "err"
                    /\ IF args.output = NONE
                       THEN stdout' = stdout \o bytes /\ UNCHANGED fs
                       ELSE /\ fs' = [fs EXCEPT ![Resolve(args.output)] = WriteAt0(@, bytes)]
                            /\ UNCHANGED stdout
                    /\ pc' = "done"
                    /\ handles' = {}
                    /\ UNCHANGED <<err, stack, cur>>
    /\ UNCHANGED <<args, kind, perm, link, stdin, run, key_bytes, printed, stderr,
                   visits, hist, keys>>

\* The same command line is run again after a run that completed.
Rerun ==
    /\ pc = "done"
    /\ run < MaxRuns
    /\ run' = run + 1
    /\ pc' = "main"
    /\ key_bytes' = <<>>
    /\ stdout' = <<>>
    /\ write_res' = "none"
    /\ printed' = {}
    /\ stderr' = {}
    /\ visits' = [p \in Paths |-> 0]
    /\ hist' = Append(hist, [fs |-> fs, kind |-> kind])
    /\ UNCHANGED <<args, kind, perm, link, fs, stdin, err, stack, cur, handles, keys>>

Next ==
    \/ GetKeyBytes
    \/ EncryptPath
    \/ \E e \in Paths : XorDir(e)
    \/ \E e \in Paths : XorFile(e)
    \/ XorFileTruncate
    \/ XorFileWrite
    \/ \E e \in Paths : XorSymlink(e)
    \/ \E e \in Paths : XorOther(e)
    \/ Return
    \/ OpenInput
    \/ OpenOutput
    \/ EncryptReader
    \/ Rerun

Spec == Init /\ [][Next]_vars

\* Recursive mode alone. The process is single threaded and nothing suspends
\* it: it keeps taking its next step until it exits.
WalkStep ==
    \/ GetKeyBytes
    \/ EncryptPath
    \/ \E e \in Paths : XorDir(e)
    \/ \E e \in Paths : XorFile(e)
    \/ XorFileTruncate
    \/ XorFileWrite
    \/ \E e \in Paths : XorSymlink(e)
    \/ \E e \in Paths : XorOther(e)
    \/ Return

WalkNext == WalkStep \/ Rerun

WalkSpec == InitWalk /\ [][WalkNext]_vars /\ WF_vars(WalkStep)

----------------------------------------------------------------------------
(* Vocabulary of the properties *)

Recursive == args.recursive # NONE

Named == args.recursive = NONE /\ args.input # NONE /\ args.output # NONE

\* The file system as the current run found it.
Before == hist[run]

\* output[i] = input[i] XOR key[i mod K], positions counted from 0
KeyWrap(input, key) ==
    [i \in 1..Len(input) |-> BXor(input[i], key[((i - 1) % Len(key)) + 1])]

\* What a single-stream run read and what it left in its sink.
StreamInput == IF args.input = NONE THEN stdin ELSE Before.fs[Resolve(args.input)]

StreamSink == IF args.output = NONE THEN stdout ELSE fs[Resolve(args.output)]

\* A completed single-stream run whose source and sink are not the same file
\* and whose write_all reported success.
StreamDone ==
    /\ pc = "done"
    /\ ~Recursive
    /\ write_res = "ok"
    /\ Named => Resolve(args.input) # Resolve(args.output)

----------------------------------------------------------------------------
(* C1: for an input of length N and a key of length K >= 1 the engine's   *)
(* result, as encrypt_reader writes it out and as xor_file holds it in    *)
(* cypher_text, has length N and its i-th byte is input[i] XOR            *)
(* key[i mod K]; an empty input gives an empty result.                    *)
C1_KeyWrap ==
    /\ StreamDone =>
          /\ Len(StreamSink) = Len(StreamInput)
          /\ StreamSink = KeyWrap(StreamInput, key_bytes)
    /\ cur.phase = "read" =>
          /\ Len(cur.buf) = Len(fs[cur.path])
          /\ cur.buf = KeyWrap(fs[cur.path], key_bytes)

\* A three byte input went through a two byte key: the key wrapped.
C1_Witness ==
    /\ StreamDone
    /\ Len(StreamInput) = 3
    /\ Len(key_bytes) = 2
    /\ StreamSink[3] = BXor(StreamInput[3], key_bytes[1])
    /\ StreamSink # StreamInput

(* C2: the transform is an involution: applying it with the same key to   *)
(* what a run produced gives back what the run read, and                  *)
(* xor(xor(I, K), K) = I for every file content I and non-empty key K a   *)
(* run starts with.                                                       *)
C2_Involution ==
    /\ StreamDone => Xor(StreamSink, key_bytes) = StreamInput
    /\ cur.phase = "read" => Xor(cur.buf, key_bytes) = fs[cur.path]
    /\ (pc = "keyed" /\ key_bytes # <<>>) =>
          \A p \in {"f", "g", "k"} : Xor(Xor(fs[p], key_bytes), key_bytes) = fs[p]

\* xor_file holds a cypher text that differs from the file it came from.
C2_Witness ==
    /\ cur.phase = "read"
    /\ Len(cur.buf) = 3
    /\ cur.buf # fs[cur.path]
    /\ Xor(cur.buf, key_bytes) = fs[cur.path]

(* C3 as stated: two completed recursive runs with the same key argument  *)
(* restore every file, whatever the key argument names.                   *)
C3_Original ==
    (Recursive /\ pc = "done" /\ run = 2) => fs = hist[1].fs

(* C3 amended: two completed recursive runs restore every file whenever   *)
(* get_key_bytes resolved the key argument to the same bytes in both runs.*)
C3_DoubleRun ==
    (Recursive /\ pc = "done" /\ run = 2 /\ keys[1] = keys[2]) =>
        /\ fs = hist[1].fs
        /\ kind = hist[1].kind

\* The second run has restored a file that the first run had changed.
C3_Witness ==
    /\ Recursive
    /\ pc = "done"
    /\ run = 2
    /\ keys[1] = keys[2]
    /\ hist[2].fs["f"] # hist[1].fs["f"]
    /\ hist[2].fs["g"] # hist[1].fs["g"]
    /\ fs = hist[1].fs

----------------------------------------------------------------------------
\* The key argument's path and what it led to when the run started.
KeyPath == PathOf(args.key)

KeyTarget == IF Before.kind[KeyPath] = "symlink" THEN link[KeyPath] ELSE KeyPath

KeyPanics == {"key_open", "key_read"}

(* C4 as stated: once get_key_bytes has run, if any file system entry     *)
(* exists at the key argument's path the key is the full contents of that *)
(* entry, and otherwise it is the UTF-8 bytes of the argument.            *)
C4_Original ==
    pc # "main" =>
        IF KeyPath \in Paths /\ Before.kind[KeyPath] # "none"
        THEN err \notin KeyPanics /\ key_bytes = Before.fs[KeyTarget]
        ELSE err \notin KeyPanics /\ key_bytes = IntoBytes(args.key)

(* C4 amended: once get_key_bytes has run, if the key argument's path,    *)
(* symlinks followed, leads to a readable regular file the key is that    *)
(* file's full contents; if it leads to a directory or to an unreadable   *)
(* file the run has aborted in get_key_bytes; otherwise (nothing there,   *)
(* or a dangling symlink) the key is the UTF-8 bytes of the argument, so  *)
(* "e-acute" gives 0xC3 0xA9.                                             *)
C4_KeyResolution ==
    pc # "main" =>
        /\ IF KeyPath \in Paths /\ Before.kind[KeyTarget] # "none"
           THEN IF Before.kind[KeyTarget] = "file" /\ perm[KeyTarget] # "none"
                THEN err \notin KeyPanics /\ key_bytes = Before.fs[KeyTarget]
                ELSE pc = "panic" /\ err \in KeyPanics
           ELSE err \notin KeyPanics /\ key_bytes = IntoBytes(args.key)
        /\ args.key = <<233>> => key_bytes = <<195, 169>>
        /\ args.key = <<97, 98>> => key_bytes = <<97, 98>>

\* The literal "k" collides with the file k: the key is the file's contents.
C4_Witness ==
    /\ pc = "keyed"
    /\ args.key = <<107>>
    /\ key_bytes = Before.fs["k"]
    /\ key_bytes # IntoBytes(args.key)

(* C5: an empty key is an error: once the key is resolved and is empty,   *)
(* no file has been created or changed, and the run does not complete.    *)
C5_EmptyKeyIsError ==
    (pc # "main" /\ err \notin KeyPanics /\ key_bytes = <<>>) =>
        /\ fs = Before.fs
        /\ kind = Before.kind
        /\ pc # "done"

----------------------------------------------------------------------------
Parent(e) == CHOOSE d \in Paths : e \in Children(d)

Siblings(s) == Children(Parent(s)) \ {s}

Pending == UNION {stack[i].todo : i \in 1..Len(stack)}

\* xor_entry was just called on e.
Visiting(e) == visits'[e] = visits[e] + 1

C7_State ==
    Recursive =>
        /\ err = "read_dir" => \A p \in Paths : visits[p] = 0
        /\ \A s \in Paths :
            (kind[s] = "dir" /\ visits[s] > 0 /\ ~CanList(s)) =>
                /\ s \in stderr
                /\ pc = "walk" => \A e \in Siblings(s) : visits[e] = 1 \/ e \in Pending
                /\ pc = "done" =>
                      \A e \in Siblings(s) :
                          /\ visits[e] = 1
                          /\ (kind[e] = "file" /\ perm[e] # "none") =>
                                fs[e] = Xor(Before.fs[e], key_bytes)

C7_Step ==
    \A s \in Paths :
        (Visiting(s) /\ kind[s] = "dir" /\ ~CanList(s)) =>
            /\ pc' = "walk"
            /\ err' = ""
            /\ stderr' = stderr \cup {s}
            /\ stack' = Taken(s)
            /\ fs' = fs

C8_Original == Recursive => Cardinality(handles) <= 1

(* C8 amended: in recursive mode the open file handles are at most two    *)
(* and all on the one file xor_file is working on (its read handle, then  *)
(* also its write handle); none is open when the walker moves to another  *)
(* entry.                                                                 *)
C8_HandlesOneFile ==
    Recursive =>
        /\ Cardinality(handles) <= 2
        /\ \A h \in handles : h[1] = cur.path
        /\ cur.phase = "idle" => handles = {}
        /\ cur.phase = "read" => handles = {<<cur.path, "r">>}
        /\ cur.phase = "write" => handles = {<<cur.path, "r">>, <<cur.path, "w">>}

\* The read handle and the write handle on f are open together.
C8_Witness ==
    /\ Recursive
    /\ handles = {<<"f", "r">>, <<"f", "w">>}
    /\ fs["f"] = <<>>
    /\ Before.fs["f"] # <<>>

(* C9: visiting a symlink, or an entry that is neither a directory nor a  *)
(* regular file, changes nothing in the file system, opens no handle and  *)
(* is not followed: no directory is listed and no file operation starts.  *)
C9_SymlinkNoOp ==
    [][\A e \in Paths :
          (Visiting(e) /\ kind[e] \notin {"dir", "file"}) =>
              /\ fs' = fs
              /\ kind' = kind
              /\ handles' = handles
              /\ cur' = cur
              /\ stack' = Taken(e)
              /\ stderr' = stderr
              /\ pc' = pc]_vars

\* The symlink up (to the ancestor d) and the entry p have been visited.
C9_Witness ==
    /\ visits["up"] = 1
    /\ visits["p"] = 1
    /\ <<"symlink", "up">> \in printed
    /\ fs = Before.fs
    /\ Len(stack) = 2

(* C10: the recursive walk terminates, also with a symlink that points    *)
(* back to an ancestor directory: every entry is visited at most once and *)
(* a started walk ends (completed or aborted).                            *)
C10_WalkTerminates ==
    /\ [](\A p \in Paths : visits[p] <= 1)
    /\ (pc = "walk") ~> (pc \in {"done", "panic"})

\* A walk over d, which holds the symlink loop sub/up -> d, has completed.
C10_Witness ==
    /\ pc = "done"
    /\ args.recursive = "d"
    /\ link["up"] = "d"
    /\ visits["up"] = 1
    /\ visits["sub"] = 1
    /\ visits["g"] = 1

====
